---------------------------- MODULE Spec2Model ----------------------------
(***************************************************************************)
(* A model of kuusi's view routing, src/code/kuusi/web/routes/web.py:      *)
(*   get_page_route     the walk over the page chain, one loop pass a step *)
(*   get_session, get_fresh_session, clone_selections, route_index         *)
(*                      the visitor's session and the copy of old answers  *)
(*   route_outgoing     the click counter, as concurrent read/modify/write *)
(* Each part has its own specification; the variables of the other parts   *)
(* stay at their initial values in it.                                     *)
(***************************************************************************)
EXTENDS Integers, Sequences, FiniteSets, TLC

VARIABLES
    \* ---- Page rows (reference data) and the frame of get_page_route
    next_page_of,       \* Page.next_page of every page (None: no link)
    previous_page_of,   \* Page.previous_page of every page
    page,               \* the argument of get_page_route
    pages,              \* its local list
    prev_page,          \* its local cursor of the backward loop
    next_page,          \* its local cursor of the forward loop, also returned
    rt_pc,              \* "back": at line 52, "fwd": at line 60, "done": returned
    \* ---- Session rows, FacetteSelection rows, the visitor context
    sessStore,          \* result_id -> Session row, for the stored sessions
    sel,                \* sel[s][f]: number of FacetteSelection rows (s, f)
    ctx,                \* request.session["result_id"], NoId when the key is absent
    call,               \* the last call made and what it answered
    \* ---- the Choosable row and the requests of route_outgoing in flight
    clicked,            \* Choosable.clicked as stored
    clicked0,           \* its value before any request
    o_pc,               \* per request: where it is in route_outgoing
    o_loc,              \* per request: clicked of its in-memory choosable
    redirects,          \* requests answered with the redirect
    notfound            \* requests answered with Http404

routeVars == <<next_page_of, previous_page_of, page, pages, prev_page, next_page, rt_pc>>
sessVars == <<sessStore, sel, ctx, call>>
outVars == <<clicked, clicked0, o_pc, o_loc, redirects, notfound>>
vars == <<routeVars, sessVars, outVars>>

None == 0

(***************************************************************************)
(* Bounds                                                                  *)
(***************************************************************************)
NumPages == 3
MaxRoute == 7
MaxSessions == 4
NumFacettes == 2
NumRequests == 3

PageIds == 1..NumPages
PageRef == PageIds \cup {None}

(***************************************************************************)
(* get_page_route                                                          *)
(***************************************************************************)

\* The page links form a doubly linked structure: each reference is mirrored
\* by the reference back. A cycle is a malformed chain and is included.
LinksMirrored ==
    /\ \A p \in PageIds : next_page_of[p] # None => previous_page_of[next_page_of[p]] = p
    /\ \A p \in PageIds : previous_page_of[p] # None => next_page_of[previous_page_of[p]] = p

\* line 54: pages = [prev_page] + pages
PrependAtEnd(p, ps) == Append(ps, p)
Prepend(p, ps) == <<p>> \o ps

\* lines 50-51: the frame on entry
RouteInit ==
    /\ next_page_of \in [PageIds -> PageRef]
    /\ previous_page_of \in [PageIds -> PageRef]
    /\ LinksMirrored
    /\ page \in PageIds
    /\ pages = <<>>
    /\ prev_page = previous_page_of[page]
    /\ next_page = None
    /\ rt_pc = "back"

\* lines 52-55: one pass of the backward loop. A Page instance is truthy, so
\* the else branch of line 53 is never taken.
BackStep ==
    /\ rt_pc = "back"
    /\ prev_page # None
    /\ Len(pages) < MaxRoute
    /\ pages' = Prepend(prev_page, pages)
    /\ prev_page' = previous_page_of[prev_page]
    /\ UNCHANGED <<next_page_of, previous_page_of, page, next_page, rt_pc>>
    /\ UNCHANGED <<sessVars, outVars>>

\* lines 52, 58-59: the backward loop ends, the start page is appended
BackExit ==
    /\ rt_pc = "back"
    /\ prev_page = None
    /\ pages' = Append(pages, page)
    /\ next_page' = next_page_of[page]
    /\ rt_pc' = "fwd"
    /\ UNCHANGED <<next_page_of, previous_page_of, page, prev_page>>
    /\ UNCHANGED <<sessVars, outVars>>

\* lines 60-63: one pass of the forward loop
FwdStep ==
    /\ rt_pc = "fwd"
    /\ next_page # None
    /\ Len(pages) < MaxRoute
    /\ pages' = Append(pages, next_page)
    /\ next_page' = next_page_of[next_page]
    /\ UNCHANGED <<next_page_of, previous_page_of, page, prev_page, rt_pc>>
    /\ UNCHANGED <<sessVars, outVars>>

\* lines 60, 67: the forward loop ends, return next_page, pages
FwdExit ==
    /\ rt_pc = "fwd"
    /\ next_page = None
    /\ rt_pc' = "done"
    /\ UNCHANGED <<next_page_of, previous_page_of, page, pages, prev_page, next_page>>
    /\ UNCHANGED <<sessVars, outVars>>

RouteIdle ==
    /\ next_page_of = [p \in PageIds |-> None]
    /\ previous_page_of = [p \in PageIds |-> None]
    /\ page = 1
    /\ pages = <<>>
    /\ prev_page = None
    /\ next_page = None
    /\ rt_pc = "done"

(***************************************************************************)
(* Sessions: get_session, get_fresh_session, clone_selections, route_index *)
(***************************************************************************)
NoId == 0
SessIds == 1..MaxSessions
Facettes == 1..NumFacettes
InitialSessions == {1, 2}
Versions == {"latest", "v1"}

\* The field defaults of a new Session row (web.models.Session)
SessionDefaults ==
    [valid_for |-> "latest", session_origin |-> None]

\* The result_id of a new Session row: one no stored session has
NewResultId(store) ==
    CHOOSE n \in 1..(MaxSessions + 1) \ DOMAIN store :
        \A m \in 1..(MaxSessions + 1) \ DOMAIN store : n <= m

\* The store and the visitor context as one value, for the functions below
State == [store |-> sessStore, sel |-> sel, ctx |-> ctx]

\* lines 91-96: Session(user_agent=...).save(); the referrer is set on the
\* object only
get_fresh_session(st) ==
    LET n == NewResultId(st.store)
    IN  [st |-> [st EXCEPT !.store = (n :> SessionDefaults) @@ st.store], session |-> n]

\* line 84: session.valid_for != "latest"
IsStaleAlways(s) == TRUE
IsStale(s) == s.valid_for # "latest"

\* lines 69-89. err: the call raised (AttributeError on None at line 84 or 88)
\* and nothing was stored.
get_session(require, st) ==
    LET fresh == get_fresh_session(st)
        made == [st |-> [fresh.st EXCEPT !.ctx = fresh.session],
                 session |-> fresh.session, err |-> FALSE]
    IN  IF ~require
        THEN [st |-> st, session |-> None, err |-> TRUE]
        ELSE IF st.ctx = NoId
        THEN made
        ELSE IF st.ctx \notin DOMAIN st.store
        THEN [st |-> st, session |-> None, err |-> TRUE]
        ELSE IF IsStale(st.store[st.ctx])
        THEN made
        ELSE [st |-> st, session |-> st.ctx, err |-> FALSE]

\* lines 105-115: the rows saved for one facette, of which the old session has
\* oldRows rows and the target session already has `have`
CopiedRowsUnchecked(oldRows, have) == oldRows
CopiedRows(oldRows, have) == IF have = 0 /\ oldRows > 0 THEN 1 ELSE 0

\* line 128: the result_id the visitor context holds after the new session
\* n was made while `current` was the active one
ActiveAfterForkKept(current, n) == current
ActiveAfterFork(current, n) == n

\* lines 98-132
clone_selections(id, session, st) ==
    IF id \notin DOMAIN st.store
    THEN st
    ELSE IF st.store[session].session_origin = None
    THEN [st EXCEPT
            !.sel[session] =
                [f \in Facettes |-> @[f] + CopiedRows(st.sel[id][f], @[f])],
            !.store[session].valid_for = st.store[id].valid_for,
            !.store[session].session_origin = id]
    ELSE IF st.store[session].session_origin # id
    THEN LET n == NewResultId(st.store)
         IN  [st EXCEPT
                !.store = (n :> [SessionDefaults EXCEPT !.session_origin = id]) @@ @,
                !.ctx = ActiveAfterFork(st.ctx, n)]
    ELSE st

\* lines 192-288 for a GET request. The page route (line 204) and the
\* rendering (lines 233-288) read the store only. Lines 223-229 store the
\* request's language in Session.language_code, a field that get_session and
\* clone_selections neither read nor write: the Session rows here leave
\* it out. A POST goes through web.helper.forward_helper (line 239) first.
route_index(id, require, st) ==
    LET g == get_session(require, st)
    IN  IF g.err
        THEN g
        ELSE [st |-> IF id # None /\ g.session # None
                     THEN clone_selections(id, g.session, g.st)
                     ELSE g.st,
              session |-> g.session, err |-> FALSE]

\* call: op, the call; id, require, session: its arguments (session: the one
\* get_session returned, for get_session and route_index); pre_ctx: the context's
\* result_id before it; pre_origin: session_origin, before the call, of the
\* session passed (of the context's session, for route_index); found: the
\* lookup by id (by the context's result_id, for get_session) matched a stored
\* session; err: the call raised; repeat: the call before was the same call.
NoCall ==
    [op |-> "none", id |-> None, require |-> FALSE, session |-> None,
     pre_ctx |-> NoId, pre_origin |-> None, found |-> FALSE, err |-> FALSE,
     repeat |-> FALSE]

SessIdle ==
    /\ sessStore = [s \in InitialSessions |-> SessionDefaults]
    /\ sel = [s \in SessIds |-> [f \in Facettes |-> 0]]
    /\ ctx = NoId
    /\ call = NoCall

\* Stored sessions and their selections (at most one row per session and
\* facette), and a visitor context that names no session, a stored one or one
\* that is stored no more.
SessInit ==
    /\ sessStore \in [InitialSessions ->
            [valid_for : Versions, session_origin : {None}]]
    /\ sel \in [SessIds -> [Facettes -> 0..1]]
    /\ \A s \in SessIds \ InitialSessions : \A f \in Facettes : sel[s][f] = 0
    /\ ctx \in {NoId} \cup InitialSessions \cup {MaxSessions}
    /\ call = NoCall

\* The model stores at most MaxSessions sessions: a call that would store one
\* more is not taken.
Fits(st) == DOMAIN st.store \subseteq SessIds

\* a direct call of get_session(page, request)
GetSessionCall ==
    \E require \in BOOLEAN :
         LET g == get_session(require, State)
         IN  /\ Fits(g.st)
             /\ UNCHANGED <<routeVars, outVars>>
             /\ sessStore' = g.st.store
             /\ sel' = g.st.sel
             /\ ctx' = g.st.ctx
             /\ call' = [op |-> "get_session", id |-> None, require |-> require,
                         session |-> g.session, pre_ctx |-> ctx, pre_origin |-> None,
                         found |-> ctx \in DOMAIN sessStore, err |-> g.err,
                         repeat |-> FALSE]

\* a direct call of clone_selections(id, request, session). As at line 210,
\* the session passed is the one the visitor context names (line 88).
CloneSelectionsCall ==
    \E id \in SessIds, session \in DOMAIN sessStore \cap {ctx} :
         LET c == clone_selections(id, session, State)
         IN  /\ Fits(c)
             /\ UNCHANGED <<routeVars, outVars>>
             /\ sessStore' = c.store
             /\ sel' = c.sel
             /\ ctx' = c.ctx
             /\ call' = [op |-> "clone_selections", id |-> id, require |-> TRUE,
                         session |-> session, pre_ctx |-> ctx,
                         pre_origin |-> sessStore[session].session_origin,
                         found |-> id \in DOMAIN sessStore, err |-> FALSE,
                         repeat |-> /\ call.op = "clone_selections"
                                    /\ call.id = id
                                    /\ call.session = session]

\* one GET request handled by route_index
RouteIndexCall ==
    \E id \in SessIds \cup {None}, require \in BOOLEAN :
         LET r == route_index(id, require, State)
         IN  /\ Fits(r.st)
             /\ UNCHANGED <<routeVars, outVars>>
             /\ sessStore' = r.st.store
             /\ sel' = r.st.sel
             /\ ctx' = r.st.ctx
             /\ call' = [op |-> "route_index", id |-> id, require |-> require,
                         session |-> r.session, pre_ctx |-> ctx,
                         pre_origin |-> IF ctx \in DOMAIN sessStore
                                        THEN sessStore[ctx].session_origin ELSE None,
                         found |-> id \in DOMAIN sessStore, err |-> r.err,
                         repeat |-> /\ call.op = "route_index"
                                    /\ call.id = id
                                    /\ call.require /\ require]

(***************************************************************************)
(* route_outgoing                                                          *)
(***************************************************************************)
Requests == 1..NumRequests

\* One Choosable row is stored, with one ChoosableMeta entry
ChoosablePk == 1
ChoosableIds == {1, 2}
MetaKeys == {"WEBSITE"}
Properties == {"website", "WEBSITE", "mastodon"}

\* line 180: property.upper()
Upper(property) ==
    CASE property = "website" -> "WEBSITE"
      [] property = "mastodon" -> "MASTODON"
      [] OTHER -> property

OutIdle ==
    /\ clicked = 0
    /\ clicked0 = 0
    /\ o_pc = [r \in Requests |-> "done"]
    /\ o_loc = [r \in Requests |-> 0]
    /\ redirects = 0
    /\ notfound = 0

OutInit ==
    /\ clicked \in 0..1
    /\ clicked0 = clicked
    /\ o_pc = [r \in Requests |-> "start"]
    /\ o_loc = [r \in Requests |-> 0]
    /\ redirects = 0
    /\ notfound = 0

\* lines 179-186, 190: the queries. An unknown id or property raises Http404;
\* otherwise got.first() has read the row into the request's own object.
OutLoad(r) ==
    /\ o_pc[r] = "start"
    /\ \E id \in ChoosableIds, property \in Properties :
         IF id = ChoosablePk /\ Upper(property) \in MetaKeys
         THEN /\ o_loc' = [o_loc EXCEPT ![r] = clicked]
              /\ o_pc' = [o_pc EXCEPT ![r] = "loaded"]
              /\ UNCHANGED notfound
         ELSE /\ o_pc' = [o_pc EXCEPT ![r] = "done"]
              /\ notfound' = notfound + 1
              /\ UNCHANGED o_loc
    /\ UNCHANGED <<clicked, clicked0, redirects>>
    /\ UNCHANGED <<routeVars, sessVars>>

\* line 187: choosable.clicked += 1, on the request's object
OutIncrement(r) ==
    /\ o_pc[r] = "loaded"
    /\ o_loc' = [o_loc EXCEPT ![r] = @ + 1]
    /\ o_pc' = [o_pc EXCEPT ![r] = "incremented"]
    /\ UNCHANGED <<clicked, clicked0, redirects, notfound>>
    /\ UNCHANGED <<routeVars, sessVars>>

\* lines 188-189: choosable.save() stores the object's value; the redirect
OutSave(r) ==
    /\ o_pc[r] = "incremented"
    /\ clicked' = o_loc[r]
    /\ redirects' = redirects + 1
    /\ o_pc' = [o_pc EXCEPT ![r] = "done"]
    /\ UNCHANGED <<clicked0, o_loc, notfound>>
    /\ UNCHANGED <<routeVars, sessVars>>

(***************************************************************************)
(* Specifications                                                          *)
(***************************************************************************)
InitRoute == RouteInit /\ SessIdle /\ OutIdle
RouteNext == BackStep \/ BackExit \/ FwdStep \/ FwdExit
SpecRoute == InitRoute /\ [][RouteNext]_vars

InitSession == RouteIdle /\ SessInit /\ OutIdle
SessionNext == GetSessionCall \/ CloneSelectionsCall
SpecSession == InitSession /\ [][SessionNext]_vars

IndexNext == RouteIndexCall
SpecIndex == InitSession /\ [][IndexNext]_vars

InitOutgoing == RouteIdle /\ SessIdle /\ OutInit
OutNext == \E r \in Requests : OutLoad(r) \/ OutIncrement(r) \/ OutSave(r)
SpecOutgoing == InitOutgoing /\ [][OutNext]_vars

(***************************************************************************)
(* The page chain of a start page, from the links alone                    *)
(***************************************************************************)
RECURSIVE Iter(_, _, _)
Iter(f, p, k) == IF k = 0 \/ p = None THEN p ELSE Iter(f, f[p], k - 1)

NextPlus(p) == {Iter(next_page_of, p, k) : k \in 1..NumPages} \ {None}
PrevPlus(p) == {Iter(previous_page_of, p, k) : k \in 1..NumPages} \ {None}
Chain(p) == {p} \cup NextPlus(p) \cup PrevPlus(p)
Acyclic(p) == \A q \in Chain(p) : q \notin NextPlus(q) /\ q \notin PrevPlus(q)
Collected == {pages[i] : i \in DOMAIN pages}

(***************************************************************************)
(* Claims                                                                  *)
(***************************************************************************)

\* C1: for an acyclic, consistently linked chain the list get_page_route
\* returns holds every page of the start page's chain exactly once, from the
\* head (no previous_page) to the tail (no next_page) in link order, and the
\* start page stands at its position in the chain.
C1_RouteIsChainInOrder ==
    (rt_pc = "done" /\ LinksMirrored /\ Acyclic(page)) =>
        /\ Collected = Chain(page)
        /\ Len(pages) = Cardinality(Chain(page))
        /\ previous_page_of[pages[1]] = None
        /\ next_page_of[pages[Len(pages)]] = None
        /\ \A i \in 1..(Len(pages) - 1) : next_page_of[pages[i]] = pages[i + 1]
        /\ pages[Cardinality(PrevPlus(page)) + 1] = page

\* C1 witness: a chain of three pages walked from its middle page
C1_Witness ==
    /\ rt_pc = "done"
    /\ Acyclic(page)
    /\ Len(pages) = 3
    /\ pages[2] = page

\* C2: the first component get_page_route returns is the page that follows
\* the start page, absent only when the start page is the last of its chain.
C2_NextPageFollowsStart ==
    (rt_pc = "done" /\ Acyclic(page)) => next_page = next_page_of[page]

\* C3: over links with a cycle get_page_route stops with a structural error.
\* The loops end only on a cursor of None and the links do not change, so a
\* walk that has collected a page twice goes round for ever: the claim
\* requires the error before that.
C3_CycleReported ==
    (~Acyclic(page) /\ Len(pages) > Cardinality(Collected)) => rt_pc = "error"

\* C4: get_session for a page that requires a session, with a result_id in
\* the visitor context that matches no stored session, does not raise,
\* returns a stored (fresh) session and stores its result_id in the context.
C4_UnknownIdGetsFreshSession ==
    (call.op = "get_session" /\ call.require /\ call.pre_ctx # NoId /\ ~call.found) =>
        /\ ~call.err
        /\ call.session \in DOMAIN sessStore
        /\ call.session # call.pre_ctx
        /\ ctx = call.session

\* C5: get_session for a page that requires no session does not raise,
\* returns no session and creates no Session row.
C5_NoSessionRequired ==
    [][(call'.op = "get_session" /\ ~call'.require) =>
          /\ ~call'.err
          /\ call'.session = None
          /\ DOMAIN sessStore' = DOMAIN sessStore]_vars

\* C6: clone_selections(old, new) called a second time in a row, the first
\* call made with a stored old session and a new session without origin,
\* changes nothing, and the new session then holds exactly one selection for
\* every facette selected in the old session and never two for one facette.
C6_CloneTwiceIsIdempotent ==
    [][(/\ call.op = "clone_selections" /\ call.found /\ call.pre_origin = None
        /\ call'.op = "clone_selections"
        /\ call'.id = call.id /\ call'.session = call.session) =>
          /\ sessStore' = sessStore /\ sel' = sel /\ ctx' = ctx
          /\ \A f \in Facettes :
                /\ sel'[call.id][f] >= 1 => sel'[call.session][f] = 1
                /\ sel'[call.session][f] <= 1]_vars

\* C6 witness: the second call was made, for an old session with a selection
\* that the new session, another session, now holds once
C6_Witness ==
    /\ call.op = "clone_selections" /\ call.repeat /\ call.found
    /\ call.pre_origin = call.id
    /\ call.session # call.id
    /\ \E f \in Facettes : sel[call.id][f] = 1 /\ sel[call.session][f] = 1

\* C7: clone_selections with a stored old session B and a session whose
\* origin is another session A stores a new Session with a result_id no
\* stored session had and origin B, makes it the visitor context's
\* result_id, and leaves the session passed with its origin and selections.
C7_OtherOriginForksSession ==
    [][(/\ call'.op = "clone_selections"
        /\ call'.id \in DOMAIN sessStore
        /\ sessStore[call'.session].session_origin \notin {None, call'.id}) =>
          /\ ctx' \notin DOMAIN sessStore
          /\ ctx' \in DOMAIN sessStore'
          /\ sessStore'[ctx'].session_origin = call'.id
          /\ DOMAIN sessStore' = DOMAIN sessStore \cup {ctx'}
          /\ sessStore'[call'.session] = sessStore[call'.session]
          /\ sel'[call'.session] = sel[call'.session]]_vars

\* C7 witness: the call was made with a session cloned from another session
\* than the one asked for, and the context names a session cloned from that
C7_Witness ==
    /\ call.op = "clone_selections" /\ call.found
    /\ call.pre_origin \notin {None, call.id}
    /\ ctx # call.session
    /\ ctx \in DOMAIN sessStore
    /\ sessStore[ctx].session_origin = call.id

\* What a request that repeats the request before must leave alone: the
\* stored sessions, their version and origin, the selections, the context.
RequestIsNoOp ==
    /\ DOMAIN sessStore' = DOMAIN sessStore
    /\ \A s \in DOMAIN sessStore :
          /\ sessStore'[s].valid_for = sessStore[s].valid_for
          /\ sessStore'[s].session_origin = sessStore[s].session_origin
    /\ sel' = sel
    /\ ctx' = ctx
    /\ ~call'.err => call'.session = ctx

RequestRepeats ==
    /\ call.op = "route_index" /\ call.require /\ call.id # None
    /\ call'.op = "route_index" /\ call'.require /\ call'.id = call.id

\* C9 as stated: a route_index request on a session-requiring page that
\* repeats the request before, with the same old-session id, creates no
\* Session, copies no selection and keeps the active session, for every old
\* session.
C9_RepeatedRequestIsNoOp ==
    [][RequestRepeats => RequestIsNoOp]_vars

\* C9 as amended: the same, for an old-session id that matches no session or
\* a session whose valid_for is "latest".
C9_RepeatedRequestIsNoOpForLatest ==
    [][(/\ RequestRepeats
        /\ call.id \in DOMAIN sessStore => sessStore[call.id].valid_for = "latest") =>
          RequestIsNoOp]_vars

\* C9 witness: the repeated request was answered, with the active session
\* cloned from the old session and holding its selection
C9_Witness ==
    /\ call.op = "route_index" /\ call.repeat /\ call.found /\ ~call.err
    /\ sessStore[call.id].valid_for = "latest"
    /\ ctx = call.session /\ ctx # call.id
    /\ sessStore[ctx].session_origin = call.id
    /\ \E f \in Facettes : sel[call.id][f] = 1 /\ sel[ctx][f] = 1

\* C10: after a route_index request with the id of a stored session B, made
\* by a visitor whose active session was cloned from another session A, the
\* active session holds a selection for every facette selected in B and has
\* B's valid_for (A, B and the visitor's session three sessions).
C10_SwitchedSessionHoldsSelections ==
    (/\ call.op = "route_index" /\ call.require /\ ~call.err
     /\ call.found
     /\ call.pre_ctx \in DOMAIN sessStore
     /\ call.pre_origin \notin {None, call.id, call.pre_ctx}
     /\ call.id # call.pre_ctx) =>
        /\ sessStore[ctx].valid_for = sessStore[call.id].valid_for
        /\ \A f \in Facettes : sel[call.id][f] >= 1 => sel[ctx][f] >= 1

\* C8: when every request is answered, clicked is its first value plus the
\* number of requests answered with the redirect.
C8_EveryRedirectCounts ==
    (\A r \in Requests : o_pc[r] = "done") => clicked = clicked0 + redirects

============================================================================
